---- MODULE Spec2Model ----
(***************************************************************************)
(* The cross-service event relay of go-case: the Node API publishes a      *)
(* DomainEvent to the Kafka topic item-events and a QueueAction to the     *)
(* RabbitMQ queue items_queue after each committed item mutation; the Go   *)
(* service consumes item-events, items_queue and notifications_queue and   *)
(* republishes a derived ack to go-events / go_events_queue.               *)
(***************************************************************************)
EXTENDS Integers, Sequences, FiniteSets, TLC

VARIABLES
  store,               \* ids of the documents in the Item collection
  nextId,              \* number of ObjectIds generated so far
  rabbitChannel,       \* the Node service's rabbitChannel: "null" or "open"
  req,                 \* req[r]: the state of the handler serving request r
  itemEvents,          \* Kafka topic item-events (a log, never truncated)
  itemsQueue,          \* RabbitMQ queue items_queue
  notificationsQueue,  \* RabbitMQ queue notifications_queue
  goEvents,            \* Kafka topic go-events
  goEventsQueue,       \* RabbitMQ queue go_events_queue
  goOffset,            \* offset of consumer group go-service-group on item-events
  nodeOffset,          \* offset of consumer group node-api-group on item-events
  loop,                \* loop[c]: the Go consumer loop of input channel c
  sent,                \* sent[c]: messages ever placed on input channel c
  received,            \* received[c]: entries the broker delivered to loop c, in order
  handled,             \* handled[c]: uids dispatched to the handler of c, in order
  skipped,             \* skipped[c]: uids the loop of c dropped after a decode error
  emits,               \* emissions attempted by the Go service, in order, each with
                       \* the state its handle was in
  node,                \* the Node process: initializeServices, listener, Kafka clients
  go,                  \* the Go process: main / gracefulShutdown and its handles
  up                   \* up[b]: whether service b is reachable when a process connects

nodeVars == <<store, nextId, rabbitChannel, req>>
chanVars == <<itemEvents, itemsQueue, notificationsQueue, sent>>
goVars   == <<goEvents, goEventsQueue, goOffset, loop, received, handled, skipped, emits>>
lifeVars == <<node, go, up>>
vars     == <<store, nextId, rabbitChannel, req, itemEvents, itemsQueue,
              notificationsQueue, goEvents, goEventsQueue, goOffset, nodeOffset,
              loop, sent, received, handled, skipped, emits, node, go, up>>

(***************************************************************************)
(* Bounds                                                                  *)
(***************************************************************************)
\* HTTP requests served by the Node API, possibly concurrently
MaxReq == 2
\* messages other producers place on the Go service's input channels
MaxMsg == 3

Requests == 1..MaxReq

(***************************************************************************)
(* Values                                                                  *)
(***************************************************************************)
\* The ObjectIds mongoose generates, in order of generation.
IdNames == <<"id1", "id2", "id3", "id4", "id5", "id6">>

ObjectId(n) == IdNames[n]

\* new Date().toISOString() in the Node service
NowISO == "2026-01-01T00:00:00.000Z"

\* time.Now().Format(time.RFC3339) in the Go service
NowRFC3339 == "2026-01-01T00:00:00Z"

\* The ObjectId objects whose hexadecimal texts are IdNames, in the same
\* order: a document holds its _id as such an object, not as text.
IdObjects ==
  <<"ObjectId(id1)", "ObjectId(id2)", "ObjectId(id3)", "ObjectId(id4)",
    "ObjectId(id5)", "ObjectId(id6)">>

IdObject(id) == IdObjects[CHOOSE i \in 1..Len(IdNames) : IdNames[i] = id]

\* ObjectId.prototype.toJSON: the hexadecimal text of an ObjectId object.
ToHexString(o) == IdNames[CHOOSE i \in 1..Len(IdObjects) : IdObjects[i] = o]

\* The Date object a document holds in createdAt (default: Date.now).
NowDate == "Date(2026-01-01T00:00:00.000Z)"

\* Date.prototype.toJSON: the ISO text of the Date object.
ToISOString(d) == IF d = NowDate THEN NowISO ELSE d

\* The document mongoose returns for the item with this id.
Doc(id) == [_id |-> IdObject(id), name |-> "Widget", createdAt |-> NowDate]

\* What JSON.stringify writes for the data of an event: a document's _id and
\* dates are written as their texts, a plain { id } object as it is.
ToJSON(data) ==
  IF "_id" \in DOMAIN data
  THEN [data EXCEPT !._id = ToHexString(@), !.createdAt = ToISOString(@)]
  ELSE data

\* JSON.stringify / json.Marshal of an object: the bytes of a JSON text,
\* with a document nested under data or item written in its JSON form.
JSONStringify(obj) ==
  [json |-> TRUE,
   obj |-> [k \in DOMAIN obj |->
              IF k \in {"data", "item"} THEN ToJSON(obj[k]) ELSE obj[k]]]

\* Bytes that are not a JSON text.
NotJSON == [json |-> FALSE, obj |-> [raw |-> "%%%"]]

Range(s) == {s[i] : i \in 1..Len(s)}

Field(obj, k, zero) == IF k \in DOMAIN obj THEN obj[k] ELSE zero

(***************************************************************************)
(* Node API: publishItemEvent                                              *)
(***************************************************************************)
\* event.replace('item_', '')
ReplaceItemPrefix(event) ==
  CASE event = "item_created" -> "created"
    [] event = "item_updated" -> "updated"
    [] event = "item_deleted" -> "deleted"
    [] OTHER -> event

\* The value of the Kafka message sent to item-events.
KafkaValue(event, data) ==
  JSONStringify([event |-> event, data |-> data, timestamp |-> NowISO])

RabbitMessage_AlwaysItem(event, data) ==
  [action |-> ReplaceItemPrefix(event), item |-> data, timestamp |-> NowISO]

\* The rabbitMessage object sent to items_queue.
RabbitMessage(event, data) ==
  IF event = "item_deleted"
  THEN [action |-> ReplaceItemPrefix(event), itemId |-> data.id, timestamp |-> NowISO]
  ELSE [action |-> ReplaceItemPrefix(event), item |-> data, timestamp |-> NowISO]

PublishRaises_Rethrow(log, queue) == log = "failed" \/ queue = "failed"

\* Whether publishItemEvent rejects: its catch block logs and does not rethrow.
PublishRaises(log, queue) == FALSE

AfterKafkaFailure_Continue == "logsent"

\* Where publishItemEvent continues when producer.send rejects: the catch
\* block, past the RabbitMQ send.
AfterKafkaFailure == "returned"

(***************************************************************************)
(* Node API: the item mutation routes                                      *)
(***************************************************************************)
Methods == {"POST", "PUT", "DELETE"}

\* What the record store does with the request's operation.
StoreResults == {"ok", "invalid", "dberror"}

EventOf_AlwaysCreated(method) == "item_created"

\* The event name each route passes to publishItemEvent.
EventOf(method) ==
  CASE method = "POST" -> "item_created"
    [] method = "PUT" -> "item_updated"
    [] method = "DELETE" -> "item_deleted"

\* The data argument the route passes to publishItemEvent.
EventData(method, id) == IF method = "DELETE" THEN [id |-> id] ELSE Doc(id)

\* The outcome of item.save() / findByIdAndUpdate / findByIdAndDelete.
StoreOutcome(method, target, result) ==
  IF result # "ok" THEN result
  ELSE IF method # "POST" /\ target \notin store THEN "notfound"
  ELSE "ok"

ShouldPublish_Always(outcome) == outcome \in {"ok", "notfound"}

\* The route reaches its publishItemEvent call only past the store call and
\* the not-found return.
ShouldPublish(outcome) == outcome = "ok"

ErrorMessage(outcome) ==
  IF outcome = "invalid" THEN "validation failed" ELSE "store error"

\* The response of the route's catch block.
CatchResponse(method, msg) ==
  [status |-> IF method = "DELETE" THEN 500 ELSE 400,
   body |-> [success |-> FALSE, error |-> msg]]

NotFoundResponse ==
  [status |-> 404, body |-> [success |-> FALSE, error |-> "Item not found"]]

SuccessResponse(method, id) ==
  CASE method = "POST" -> [status |-> 201, body |-> [success |-> TRUE, data |-> ToJSON(Doc(id))]]
    [] method = "PUT" -> [status |-> 200, body |-> [success |-> TRUE, data |-> ToJSON(Doc(id))]]
    [] method = "DELETE" ->
         [status |-> 200,
          body |-> [success |-> TRUE, message |-> "Item deleted successfully"]]

NoResponse == [status |-> 0, body |-> [success |-> FALSE]]

IdleReq ==
  [pc |-> "idle", method |-> "", target |-> "", outcome |-> "none", item |-> "",
   log |-> "none", queue |-> "none", raised |-> FALSE, resp |-> NoResponse,
   seq |-> 0]

\* The number of mutations the record store has committed so far.
Commits == Cardinality({q \in Requests : req[q].seq > 0})

\* The route up to its first await settling: the store operation, and the
\* response when the mutation did not commit. seq keeps the position of the
\* request's commit among the commits of the store.
StoreStep(r) ==
  /\ node.http
  /\ req[r].pc = "idle"
  /\ \E method \in Methods, n \in 1..MaxReq, result \in StoreResults :
       LET target  == IF method = "POST" THEN "" ELSE ObjectId(n)
           outcome == StoreOutcome(method, target, result)
           id      == IF method = "POST" THEN ObjectId(nextId + 1) ELSE target
           base    == [IdleReq EXCEPT !.method = method, !.target = target,
                                      !.outcome = outcome]
       IN /\ method = "POST" => n = 1
          /\ result = "ok" => up["mongo"] /\ node.mongo = "open"
          /\ IF outcome = "ok"
             THEN /\ store' = (IF method = "POST" THEN store \cup {id}
                               ELSE IF method = "DELETE" THEN store \ {id}
                               ELSE store)
                  /\ nextId' = (IF method = "POST" THEN nextId + 1 ELSE nextId)
             ELSE UNCHANGED <<store, nextId>>
          /\ IF ShouldPublish(outcome)
             THEN req' = [req EXCEPT ![r] = [base EXCEPT !.pc = "committed", !.item = id,
                                                         !.seq = Commits + 1]]
             ELSE req' = [req EXCEPT ![r] =
                            [base EXCEPT !.pc = "done",
                               !.resp = IF outcome = "notfound" THEN NotFoundResponse
                                        ELSE CatchResponse(method, ErrorMessage(outcome))]]
  /\ UNCHANGED <<rabbitChannel, nodeOffset>>
  /\ UNCHANGED chanVars
  /\ UNCHANGED goVars
  /\ UNCHANGED lifeVars

\* await producer.send({topic: 'item-events', ...}) settles.
KafkaSend(r) ==
  /\ req[r].pc = "committed"
  /\ \E ok \in BOOLEAN :
       IF ok
       THEN /\ node.producer
            /\ itemEvents' = Append(itemEvents,
                 [body |-> KafkaValue(EventOf(req[r].method),
                                      EventData(req[r].method, req[r].item)),
                  uid |-> sent["item-events"] + 1, src |-> r])
            /\ sent' = [sent EXCEPT !["item-events"] = @ + 1]
            /\ req' = [req EXCEPT ![r].pc = "logsent", ![r].log = "ok"]
       ELSE /\ UNCHANGED <<itemEvents, sent>>
            /\ req' = [req EXCEPT ![r].pc = AfterKafkaFailure, ![r].log = "failed",
                                  ![r].raised = PublishRaises("failed", "none")]
  /\ UNCHANGED <<store, nextId, rabbitChannel, nodeOffset>>
  /\ UNCHANGED <<itemsQueue, notificationsQueue>>
  /\ UNCHANGED goVars
  /\ UNCHANGED lifeVars

\* if (rabbitChannel) { await rabbitChannel.sendToQueue('items_queue', ...) }
QueueSend(r) ==
  /\ req[r].pc = "logsent"
  /\ IF rabbitChannel = "null"
     THEN /\ req' = [req EXCEPT ![r].pc = "returned", ![r].queue = "skipped"]
          /\ UNCHANGED <<itemsQueue, sent>>
     ELSE \E ok \in BOOLEAN :
            IF ok
            THEN /\ rabbitChannel = "open"
                 /\ itemsQueue' = Append(itemsQueue,
                      [body |-> JSONStringify(RabbitMessage(EventOf(req[r].method),
                                   EventData(req[r].method, req[r].item))),
                       uid |-> sent["items_queue"] + 1, src |-> r])
                 /\ sent' = [sent EXCEPT !["items_queue"] = @ + 1]
                 /\ req' = [req EXCEPT ![r].pc = "returned", ![r].queue = "ok"]
            ELSE /\ UNCHANGED <<itemsQueue, sent>>
                 /\ req' = [req EXCEPT ![r].pc = "returned", ![r].queue = "failed",
                               ![r].raised = PublishRaises(req[r].log, "failed")]
  /\ UNCHANGED <<store, nextId, rabbitChannel, nodeOffset>>
  /\ UNCHANGED <<itemEvents, notificationsQueue>>
  /\ UNCHANGED goVars
  /\ UNCHANGED lifeVars

\* A route that does not await publishItemEvent: it responds while the call
\* is still running.
Respond_NoAwait(r) ==
  /\ req[r].pc \in {"committed", "logsent", "returned"}
  /\ req' = [req EXCEPT ![r].pc = "done",
                ![r].resp = SuccessResponse(req[r].method, req[r].item)]
  /\ UNCHANGED <<store, nextId, rabbitChannel, nodeOffset>>
  /\ UNCHANGED chanVars
  /\ UNCHANGED goVars
  /\ UNCHANGED lifeVars

\* The route after await publishItemEvent(...): the success response, or the
\* catch block's response had the call rejected.
Respond(r) ==
  /\ req[r].pc = "returned"
  /\ req' = [req EXCEPT ![r].pc = "done",
                ![r].resp = IF req[r].raised
                            THEN CatchResponse(req[r].method, "publish error")
                            ELSE SuccessResponse(req[r].method, req[r].item)]
  /\ UNCHANGED <<store, nextId, rabbitChannel, nodeOffset>>
  /\ UNCHANGED chanVars
  /\ UNCHANGED goVars
  /\ UNCHANGED lifeVars

InputChannels == {"item-events", "items_queue", "notifications_queue"}

\* The record store and the two brokers.
Services == {"mongo", "kafka", "rabbit"}

IdleLoop == [pc |-> "recv", uid |-> 0, msg |-> [nil |-> TRUE]]

\* The state once both services have started: one item created earlier is in
\* the collection, the channels are empty, no request is being served;
\* rabbitChannel is null when connectRabbitMQ failed.
Init ==
  /\ store = {ObjectId(1)}
  /\ nextId = 1
  /\ rabbitChannel \in {"null", "open"}
  /\ req = [r \in Requests |-> IdleReq]
  /\ itemEvents = <<>>
  /\ itemsQueue = <<>>
  /\ notificationsQueue = <<>>
  /\ goEvents = <<>>
  /\ goEventsQueue = <<>>
  /\ goOffset = 0
  /\ nodeOffset = 0
  /\ loop = [c \in InputChannels |-> IdleLoop]
  /\ sent = [c \in InputChannels |-> 0]
  /\ received = [c \in InputChannels |-> <<>>]
  /\ handled = [c \in InputChannels |-> <<>>]
  /\ skipped = [c \in InputChannels |-> <<>>]
  /\ emits = <<>>
  /\ node = [init |-> "done", http |-> TRUE, producer |-> TRUE, consumer |-> TRUE, lost |-> {},
             declared |-> IF rabbitChannel = "open"
                          THEN {"items_queue", "notifications_queue"} ELSE {},
             mongo |-> "open", stop |-> "none", closes |-> <<>>]
  /\ go = [pc |-> "serving", mongo |-> "open", reader |-> "open", writer |-> "open",
           channel |-> "open", conn |-> "open", http |-> "accepting", api |-> <<>>, spun |-> FALSE]
  /\ up = [b \in Services |-> TRUE]

NodeNext == \E r \in Requests : StoreStep(r) \/ KafkaSend(r) \/ QueueSend(r) \/ Respond(r)

Next == NodeNext

\* The Node API serving item mutations.
Spec == Init /\ [][Next]_vars

(***************************************************************************)
(* Node API: the consumer of group node-api-group                          *)
(***************************************************************************)
\* eachMessage of consumer.run: logs the message and emits nothing.
NodeConsume ==
  /\ node.consumer
  /\ nodeOffset < Len(itemEvents)
  /\ nodeOffset' = nodeOffset + 1
  /\ UNCHANGED nodeVars
  /\ UNCHANGED chanVars
  /\ UNCHANGED goVars
  /\ UNCHANGED lifeVars

(***************************************************************************)
(* Go service: decoding                                                    *)
(***************************************************************************)
\* The zero value of an interface{} field.
Nil == [nil |-> TRUE]

UnmarshalKafka_NoData(bytes) ==
  [err |-> ~bytes.json,
   msg |-> [Event |-> Field(bytes.obj, "event", ""),
            Data |-> Nil,
            Timestamp |-> Field(bytes.obj, "timestamp", "")]]

\* json.Unmarshal(message.Value, &kafkaMsg) into a KafkaMessage: an absent
\* field keeps its zero value.
UnmarshalKafka(bytes) ==
  [err |-> ~bytes.json,
   msg |-> [Event |-> Field(bytes.obj, "event", ""),
            Data |-> Field(bytes.obj, "data", Nil),
            Timestamp |-> Field(bytes.obj, "timestamp", "")]]

\* json.Unmarshal(msg.Body, &rabbitMsg) into a RabbitMessage.
UnmarshalRabbit(bytes) ==
  [err |-> ~bytes.json,
   msg |-> [Action |-> Field(bytes.obj, "action", ""),
            Item |-> Field(bytes.obj, "item", Nil),
            ItemID |-> Field(bytes.obj, "itemId", ""),
            Timestamp |-> Field(bytes.obj, "timestamp", "")]]

\* json.Unmarshal(msg.Body, &notifyMsg) into a NotificationMessage.
UnmarshalNotification(bytes) ==
  [err |-> ~bytes.json,
   msg |-> [Message |-> Field(bytes.obj, "message", ""),
            Recipient |-> Field(bytes.obj, "recipient", ""),
            Timestamp |-> Field(bytes.obj, "timestamp", "")]]

Unmarshal(c, bytes) ==
  CASE c = "item-events" -> UnmarshalKafka(bytes)
    [] c = "items_queue" -> UnmarshalRabbit(bytes)
    [] c = "notifications_queue" -> UnmarshalNotification(bytes)

AfterDecodeError_Return == "stopped"

\* The loop after a decode error: log and continue with the next message.
AfterDecodeError == "recv"

(***************************************************************************)
(* Go service: the handlers                                                *)
(***************************************************************************)
\* primitive.NewObjectID().Hex()
NewObjectIDHex == "oid"

\* The response map of processKafkaMessage.
KafkaResponse(msg) ==
  [original_event |-> msg.Event, processed_by |-> "go-service",
   timestamp |-> NowRFC3339, status |-> "processed"]

\* The response map of processRabbitMessage.
RabbitResponse(msg) ==
  [original_action |-> msg.Action, processed_by |-> "go-service",
   timestamp |-> NowRFC3339, status |-> "processed"]

\* The response map of processNotification.
NotificationResponse(msg) ==
  [notification_id |-> NewObjectIDHex, recipient |-> msg.Recipient,
   status |-> "sent", processed_by |-> "go-service", timestamp |-> NowRFC3339]

Response(c, msg) ==
  CASE c = "item-events" -> KafkaResponse(msg)
    [] c = "items_queue" -> RabbitResponse(msg)
    [] c = "notifications_queue" -> NotificationResponse(msg)

OutputOf_AllKafka(c) == "go-events"

\* Where the handler of input channel c republishes: kafkaWriter's topic, or
\* the routing key of rabbitChannel.Publish.
OutputOf(c) == IF c = "item-events" THEN "go-events" ELSE "go_events_queue"

(***************************************************************************)
(* Go service: the consumer loops                                          *)
(***************************************************************************)
CommitOffset_Stay(offset) == offset

\* kafkaReader.ReadMessage with a GroupID commits the offset of the message
\* it returns.
CommitOffset(offset) == offset + 1

AfterDelivery_Unacked(queue) == queue

\* The queue after the broker delivered its head to a consumer registered
\* with auto-ack: the message is acknowledged at delivery and leaves the queue.
AfterDelivery(queue) == Tail(queue)

\* The process has neither exited nor died in log.Fatalf.
GoRunning == go.pc \notin {"exited", "fatal"}

\* The state of the handle an emission to output channel name goes through:
\* kafkaWriter for go-events, rabbitChannel for go_events_queue.
OutputHandle(name) == IF name = "go-events" THEN go.writer ELSE go.channel

\* A writer and a channel on which a write goes through after Close().
HandleOpen_Always(name) == TRUE

\* Whether the handle a handler writes to (kafkaWriter for go-events,
\* rabbitChannel for go_events_queue) is open.
HandleOpen(name) ==
  IF name = "go-events" THEN go.writer = "open" ELSE go.channel = "open"

\* The loop body from a received entry to the handler call.
Dispatch(c, entry) ==
  LET d == Unmarshal(c, entry.body)
  IN /\ received' = [received EXCEPT ![c] = Append(@, entry)]
     /\ IF d.err
        THEN /\ skipped' = [skipped EXCEPT ![c] = Append(@, entry.uid)]
             /\ loop' = [loop EXCEPT ![c].pc = AfterDecodeError]
             /\ UNCHANGED handled
        ELSE /\ handled' = [handled EXCEPT ![c] = Append(@, entry.uid)]
             /\ loop' = [loop EXCEPT ![c] = [pc |-> "process", uid |-> entry.uid,
                                             msg |-> d.msg]]
             /\ UNCHANGED skipped

\* startKafkaConsumer: ReadMessage returns the next message of item-events.
KafkaRead ==
  /\ GoRunning
  /\ go.reader = "open"
  /\ loop["item-events"].pc = "recv"
  /\ goOffset < Len(itemEvents)
  /\ goOffset' = CommitOffset(goOffset)
  /\ Dispatch("item-events", itemEvents[goOffset + 1])
  /\ UNCHANGED nodeVars
  /\ UNCHANGED chanVars
  /\ UNCHANGED <<goEvents, goEventsQueue, emits, nodeOffset>>
  /\ UNCHANGED lifeVars

\* startRabbitConsumer: the items_queue loop takes the next delivery.
ItemsReceive ==
  /\ GoRunning
  /\ go.channel = "open"
  /\ loop["items_queue"].pc = "recv"
  /\ itemsQueue # <<>>
  /\ itemsQueue' = AfterDelivery(itemsQueue)
  /\ Dispatch("items_queue", Head(itemsQueue))
  /\ UNCHANGED nodeVars
  /\ UNCHANGED <<itemEvents, notificationsQueue, sent>>
  /\ UNCHANGED <<goEvents, goEventsQueue, goOffset, emits, nodeOffset>>
  /\ UNCHANGED lifeVars

\* startRabbitConsumer: the notifications_queue loop takes the next delivery.
NotifyReceive ==
  /\ GoRunning
  /\ go.channel = "open"
  /\ loop["notifications_queue"].pc = "recv"
  /\ notificationsQueue # <<>>
  /\ notificationsQueue' = AfterDelivery(notificationsQueue)
  /\ Dispatch("notifications_queue", Head(notificationsQueue))
  /\ UNCHANGED nodeVars
  /\ UNCHANGED <<itemEvents, itemsQueue, sent>>
  /\ UNCHANGED <<goEvents, goEventsQueue, goOffset, emits, nodeOffset>>
  /\ UNCHANGED lifeVars

Publish_Front(channel, ack) == <<ack>> \o channel

\* kafkaWriter.WriteMessages / rabbitChannel.Publish accepted by the broker:
\* the message goes to the end of the output channel.
Publish(channel, ack) == Append(channel, ack)

\* processKafkaMessage / processRabbitMessage / processNotification: one
\* WriteMessages or Publish call whose error is discarded.
Process(c) ==
  /\ GoRunning
  /\ loop[c].pc = "process"
  /\ \E ok \in BOOLEAN :
       LET ack == [body |-> JSONStringify(Response(c, loop[c].msg)),
                   from |-> c, uid |-> loop[c].uid]
       IN /\ ok => HandleOpen(OutputOf(c))
          /\ emits' = Append(emits, [from |-> c, uid |-> loop[c].uid,
                                     to |-> OutputOf(c), ok |-> ok,
                                     handle |-> OutputHandle(OutputOf(c))])
          /\ goEvents' = IF ok /\ OutputOf(c) = "go-events"
                         THEN Publish(goEvents, ack) ELSE goEvents
          /\ goEventsQueue' = IF ok /\ OutputOf(c) = "go_events_queue"
                              THEN Publish(goEventsQueue, ack) ELSE goEventsQueue
  /\ loop' = [loop EXCEPT ![c] = IdleLoop]
  /\ UNCHANGED nodeVars
  /\ UNCHANGED chanVars
  /\ UNCHANGED <<goOffset, nodeOffset, received, handled, skipped>>
  /\ UNCHANGED lifeVars

GoNext == KafkaRead \/ ItemsReceive \/ NotifyReceive \/ (\E c \in InputChannels : Process(c))

(***************************************************************************)
(* Other producers on the Go service's input channels                      *)
(***************************************************************************)
\* The payloads another producer may place on channel c: messages of the
\* shape the Node API sends, a JSON object without the channel's fields, and
\* bytes that are not JSON.
Payloads(c) ==
  CASE c = "item-events" ->
         <<KafkaValue("item_created", Doc("id1")),
           KafkaValue("item_deleted", [id |-> "id1"]),
           JSONStringify([timestamp |-> NowISO]),
           NotJSON>>
    [] c = "items_queue" ->
         <<JSONStringify(RabbitMessage("item_updated", Doc("id1"))),
           JSONStringify(RabbitMessage("item_deleted", [id |-> "id1"])),
           JSONStringify([timestamp |-> NowISO]),
           NotJSON>>
    [] c = "notifications_queue" ->
         <<JSONStringify([message |-> "hi", recipient |-> "a@b.com", timestamp |-> NowISO]),
           JSONStringify([message |-> "yo", recipient |-> "c@d.com", timestamp |-> NowISO]),
           JSONStringify([timestamp |-> NowISO]),
           NotJSON>>

TotalSent == sent["item-events"] + sent["items_queue"] + sent["notifications_queue"]

\* The broker accepts a message for input channel c.
Arrive(c) ==
  /\ TotalSent < MaxMsg
  /\ \E i \in 1..Len(Payloads(c)) :
       LET entry == [body |-> Payloads(c)[i], uid |-> sent[c] + 1, src |-> 0]
       IN /\ itemEvents' = IF c = "item-events"
                           THEN Append(itemEvents, entry) ELSE itemEvents
          /\ itemsQueue' = IF c = "items_queue"
                           THEN Append(itemsQueue, entry) ELSE itemsQueue
          /\ notificationsQueue' = IF c = "notifications_queue"
                                   THEN Append(notificationsQueue, entry)
                                   ELSE notificationsQueue
  /\ sent' = [sent EXCEPT ![c] = @ + 1]
  /\ UNCHANGED nodeVars
  /\ UNCHANGED goVars
  /\ UNCHANGED nodeOffset
  /\ UNCHANGED lifeVars

RelayNext == (\E c \in InputChannels : Arrive(c)) \/ GoNext

\* The Go service's three consumer loops fed by arbitrary producers.
SpecRelay == Init /\ [][RelayNext]_vars

\* The client sends request r once it has the responses of the requests before it.
NextInTurn(r) ==
  \A q \in Requests : (q < r => req[q].pc = "done") /\ (q > r => req[q].pc = "idle")

SystemNext ==
  \/ \E r \in Requests :
       (NextInTurn(r) /\ StoreStep(r)) \/ KafkaSend(r) \/ QueueSend(r) \/ Respond(r)
  \/ NodeConsume
  \/ KafkaRead
  \/ Process("item-events")

\* The item-events path through both services, for a client that sends its
\* requests one after the other: the Go loop keeps running, the broker keeps
\* answering its reads and the handler's write returns.
SpecLive ==
  /\ Init
  /\ [][SystemNext]_vars
  /\ WF_vars(KafkaRead)
  /\ WF_vars(Process("item-events"))

(***************************************************************************)
(* Process start: both services before anything is connected               *)
(***************************************************************************)
OffLoop == [pc |-> "off", uid |-> 0, msg |-> [nil |-> TRUE]]

\* Both processes at their first statement: nothing is connected, no loop
\* runs, no listener is open; each of the record store and the two brokers
\* is reachable or not.
InitBoot ==
  /\ store = {ObjectId(1)}
  /\ nextId = 1
  /\ rabbitChannel = "null"
  /\ req = [r \in Requests |-> IdleReq]
  /\ itemEvents = <<>>
  /\ itemsQueue = <<>>
  /\ notificationsQueue = <<>>
  /\ goEvents = <<>>
  /\ goEventsQueue = <<>>
  /\ goOffset = 0
  /\ nodeOffset = 0
  /\ loop = [c \in InputChannels |-> OffLoop]
  /\ sent = [c \in InputChannels |-> 0]
  /\ received = [c \in InputChannels |-> <<>>]
  /\ handled = [c \in InputChannels |-> <<>>]
  /\ skipped = [c \in InputChannels |-> <<>>]
  /\ emits = <<>>
  /\ node = [init |-> "off", http |-> FALSE, producer |-> FALSE, consumer |-> FALSE, lost |-> {},
             declared |-> {}, mongo |-> "open", stop |-> "none", closes |-> <<>>]
  /\ go = [pc |-> "connectMongo", mongo |-> "nil", reader |-> "nil", writer |-> "nil",
           channel |-> "nil", conn |-> "nil", http |-> "down", api |-> <<>>, spun |-> FALSE]
  /\ up \in [Services -> BOOLEAN]

(***************************************************************************)
(* Node API: app.listen and initializeServices                             *)
(***************************************************************************)
\* app.listen(PORT, callback): the listener is open and the callback calls
\* initializeServices, whose first await is producer.connect().
NodeListen ==
  /\ node.init = "off"
  /\ node' = [node EXCEPT !.http = TRUE, !.init = "producer"]
  /\ UNCHANGED <<store, nextId, rabbitChannel, req, nodeOffset, go, up>>
  /\ UNCHANGED chanVars
  /\ UNCHANGED goVars

\* The step of initializeServices after a failed Kafka step: its catch block.
AfterKafkaInitFailure == "failed"

\* await producer.connect() settles.
NodeProducerConnect ==
  /\ node.init = "producer"
  /\ node' = IF up["kafka"]
             THEN [node EXCEPT !.producer = TRUE, !.init = "consumer"]
             ELSE [node EXCEPT !.init = AfterKafkaInitFailure]
  /\ UNCHANGED <<store, nextId, rabbitChannel, req, nodeOffset, go, up>>
  /\ UNCHANGED chanVars
  /\ UNCHANGED goVars

\* await consumer.connect(), consumer.subscribe(...), consumer.run(...) settle.
NodeConsumerConnect ==
  /\ node.init = "consumer"
  /\ \E ok \in BOOLEAN :
       node' = IF ok
               THEN [node EXCEPT !.consumer = TRUE, !.init = "amqp"]
               ELSE [node EXCEPT !.init = AfterKafkaInitFailure]
  /\ UNCHANGED <<store, nextId, rabbitChannel, req, nodeOffset, go, up>>
  /\ UNCHANGED chanVars
  /\ UNCHANGED goVars

\* connectRabbitMQ: amqp.connect, createChannel (which assigns
\* rabbitChannel) and the two assertQueue calls, one await at a time; an
\* error at any of them is caught inside connectRabbitMQ.
NodeRabbitStep ==
  /\ node.init \in {"amqp", "channel", "assertItems", "assertNotify"}
  /\ \E ok \in BOOLEAN :
       /\ ok => up["rabbit"]
       /\ ~ok => node.init = "amqp" \/ up["rabbit"]
       /\ IF ~ok
          THEN /\ node' = [node EXCEPT !.init = "done"]
               /\ UNCHANGED rabbitChannel
          ELSE CASE node.init = "amqp" ->
                      /\ node' = [node EXCEPT !.init = "channel"]
                      /\ UNCHANGED rabbitChannel
                 [] node.init = "channel" ->
                      /\ node' = [node EXCEPT !.init = "assertItems"]
                      /\ rabbitChannel' = "open"
                 [] node.init = "assertItems" ->
                      /\ node' = [node EXCEPT !.init = "assertNotify",
                                              !.declared = @ \cup {"items_queue"}]
                      /\ UNCHANGED rabbitChannel
                 [] node.init = "assertNotify" ->
                      /\ node' = [node EXCEPT !.init = "done",
                                              !.declared = @ \cup {"notifications_queue"}]
                      /\ UNCHANGED rabbitChannel
  /\ UNCHANGED <<store, nextId, req, nodeOffset, go, up>>
  /\ UNCHANGED chanVars
  /\ UNCHANGED goVars

NodeBootNext ==
  NodeListen \/ NodeProducerConnect \/ NodeConsumerConnect \/ NodeRabbitStep \/ NodeNext

\* The Node API from process start: startup interleaved with item requests.
SpecNodeBoot == InitBoot /\ [][NodeBootNext]_vars

(***************************************************************************)
(* Go service: main and gracefulShutdown                                   *)
(***************************************************************************)
goRest == <<store, nextId, rabbitChannel, req, nodeOffset, node, up>>

goData == <<goEvents, goEventsQueue, goOffset, received, handled, skipped, emits>>

\* What main does after a failed connect: log.Fatalf ends the process.
AfterConnectFailure == "fatal"

\* connectMongoDB: mongo.Connect and Ping.
GoConnectMongo ==
  /\ go.pc = "connectMongo"
  /\ go' = IF up["mongo"]
           THEN [go EXCEPT !.mongo = "open", !.pc = "connectKafka"]
           ELSE [go EXCEPT !.pc = AfterConnectFailure]
  /\ UNCHANGED <<goRest, chanVars, goData, loop>>

\* connectKafka: builds the reader and the writer without contacting the
\* broker and returns nil.
GoConnectKafka ==
  /\ go.pc = "connectKafka"
  /\ go' = [go EXCEPT !.reader = "open", !.writer = "open", !.pc = "connectRabbit"]
  /\ UNCHANGED <<goRest, chanVars, goData, loop>>

\* connectRabbitMQ: Dial, Channel and the three QueueDeclare calls.
GoConnectRabbit ==
  /\ go.pc = "connectRabbit"
  /\ go' = IF up["rabbit"]
           THEN [go EXCEPT !.conn = "open", !.channel = "open", !.pc = "startConsumers"]
           ELSE [go EXCEPT !.pc = AfterConnectFailure]
  /\ UNCHANGED <<goRest, chanVars, goData, loop>>

\* startKafkaConsumer() and startRabbitConsumer(): three goroutines start;
\* the Kafka one goes straight to ReadMessage, the RabbitMQ ones to Consume.
GoStartConsumers ==
  /\ go.pc = "startConsumers"
  /\ go' = [go EXCEPT !.pc = "listen"]
  /\ loop' = [c \in InputChannels |->
                [loop[c] EXCEPT !.pc = IF c = "item-events" THEN "recv" ELSE "subscribe"]]
  /\ UNCHANGED <<goRest, chanVars, goData>>

\* A consumer set up with log.Fatalf on the Consume error, as main does for
\* the connections.
Subscribe_Fatal(c) ==
  /\ GoRunning
  /\ loop[c].pc = "subscribe"
  /\ \E ok \in BOOLEAN :
       /\ ok => go.channel = "open"
       /\ loop' = [loop EXCEPT ![c].pc = IF ok THEN "recv" ELSE "stopped"]
       /\ go' = IF ok THEN go ELSE [go EXCEPT !.pc = "fatal"]
  /\ UNCHANGED <<goRest, chanVars, goData>>

\* rabbitChannel.Consume(queue, ..., auto-ack, ...) in the loop's goroutine:
\* on an error the goroutine logs and returns.
Subscribe(c) ==
  /\ GoRunning
  /\ loop[c].pc = "subscribe"
  /\ \E ok \in BOOLEAN :
       /\ ok => go.channel = "open"
       /\ loop' = [loop EXCEPT ![c].pc = IF ok THEN "recv" ELSE "stopped"]
  /\ UNCHANGED <<goRest, chanVars, goData, go>>

\* go func() { server.ListenAndServe() }(), then main waits in
\* gracefulShutdown for a signal.
GoListen ==
  /\ go.pc = "listen"
  /\ go' = [go EXCEPT !.http = "accepting", !.pc = "serving"]
  /\ UNCHANGED <<goRest, chanVars, goData, loop>>

\* SIGINT or SIGTERM arrives: <-quit returns.
GoSignal ==
  /\ go.pc = "serving"
  /\ go' = [go EXCEPT !.pc = "shutdownHttp"]
  /\ UNCHANGED <<goRest, chanVars, goData, loop>>

ShutdownOrder_WaitForDrain ==
  <<"shutdownHttp", "shutdownHttp", "closeReader", "closeWriter", "closeChannel",
    "closeConn", "closeMongo", "exited">>

\* The order in which gracefulShutdown releases what the process holds.
ShutdownOrder ==
  <<"shutdownHttp", "closeReader", "closeWriter", "closeChannel", "closeConn",
    "closeMongo", "exited">>

StepAfter(pc) ==
  ShutdownOrder[1 + CHOOSE i \in 1..Len(ShutdownOrder) : ShutdownOrder[i] = pc]

\* One statement of gracefulShutdown after the signal: server.Shutdown(ctx),
\* which returns when the in-flight requests have drained or, with an error
\* that is only logged, when the 5 s grace period is over; then
\* kafkaReader.Close(), kafkaWriter.Close(), rabbitChannel.Close(),
\* rabbitConn.Close(), mongoClient.Disconnect(...).
GoShutdownStep ==
  /\ go.pc \in Range(ShutdownOrder) \ {"exited"}
  /\ \E drained \in BOOLEAN :
     /\ ~drained => go.pc = "shutdownHttp"
     /\ go' = [go EXCEPT
              !.pc = StepAfter(go.pc),
              !.http = IF go.pc = "shutdownHttp"
                       THEN (IF drained THEN "stopped" ELSE "forced") ELSE @,
              !.reader = IF go.pc = "closeReader" THEN "closed" ELSE @,
              !.writer = IF go.pc = "closeWriter" THEN "closed" ELSE @,
              !.channel = IF go.pc = "closeChannel" THEN "closed" ELSE @,
              !.conn = IF go.pc = "closeConn" THEN "closed" ELSE @,
              !.mongo = IF go.pc = "closeMongo" THEN "closed" ELSE @]
  /\ UNCHANGED <<goRest, chanVars, goData, loop>>

\* for msg := range msgs ends when the channel is closed: the goroutine of a
\* RabbitMQ loop returns.
LoopEnds(c) ==
  /\ GoRunning
  /\ c # "item-events"
  /\ loop[c].pc = "recv"
  /\ go.channel = "closed"
  /\ loop' = [loop EXCEPT ![c].pc = "stopped"]
  /\ UNCHANGED <<goRest, chanVars, goData, go>>

\* startKafkaConsumer after kafkaReader.Close(): ReadMessage returns an error,
\* the loop logs it and continues with the next ReadMessage. go.spun records
\* that this has happened.
KafkaReadError ==
  /\ GoRunning
  /\ loop["item-events"].pc = "recv"
  /\ go.reader = "closed"
  /\ go' = [go EXCEPT !.spun = TRUE]
  /\ UNCHANGED <<goRest, chanVars, goData, loop>>

\* Messages other producers put on the Go service's input channels while
\* the process starts, serves and shuts down.
MaxLife == 2

ArriveDuringLife(c) ==
  /\ TotalSent < MaxLife
  /\ Arrive(c)

GoLifeNext ==
  \/ GoConnectMongo \/ GoConnectKafka \/ GoConnectRabbit \/ GoStartConsumers
  \/ GoListen \/ GoSignal \/ GoShutdownStep \/ KafkaReadError
  \/ \E c \in InputChannels : Subscribe(c) \/ LoopEnds(c) \/ ArriveDuringLife(c)
  \/ GoNext

\* The Go service from process start to exit, its loops fed by arbitrary
\* producers.
SpecGoLife == InitBoot /\ [][GoLifeNext]_vars

(***************************************************************************)
(* Node API: POST /api/notify                                              *)
(***************************************************************************)
\* The request bodies a client posts: { message, recipient }, the last one
\* without a message.
NotifyBodies ==
  <<[message |-> "hi", recipient |-> "a@b.com"],
    [message |-> "yo", recipient |-> "c@d.com"],
    [recipient |-> "a@b.com"]>>

\* JSON.stringify({ message, recipient, timestamp }): an undefined property
\* is left out of the text.
NotificationBody(b) == JSONStringify(b @@ [timestamp |-> NowISO])

NotifySuccessResponse ==
  [status |-> 200,
   body |-> [success |-> TRUE, message |-> "Notification sent successfully"]]

NotConnectedResponse_Success == NotifySuccessResponse

\* The else branch of if (rabbitChannel).
NotConnectedResponse ==
  [status |-> 500, body |-> [success |-> FALSE, error |-> "RabbitMQ not connected"]]

\* The route's catch block.
NotifyErrorResponse ==
  [status |-> 500, body |-> [success |-> FALSE, error |-> "send error"]]

\* app.post('/api/notify'): one request from its arrival to its response.
Notify(r) ==
  /\ node.http
  /\ req[r].pc = "idle"
  /\ \E i \in 1..Len(NotifyBodies), ok \in BOOLEAN :
       LET b    == NotifyBodies[i]
           base == [IdleReq EXCEPT !.pc = "done", !.method = "NOTIFY",
                                   !.item = Field(b, "message", ""),
                                   !.target = Field(b, "recipient", "")]
       IN IF rabbitChannel = "null"
          THEN /\ ok
               /\ req' = [req EXCEPT ![r] = [base EXCEPT !.queue = "skipped",
                                                          !.resp = NotConnectedResponse]]
               /\ UNCHANGED <<notificationsQueue, sent>>
          ELSE IF ok
          THEN /\ notificationsQueue' = Append(notificationsQueue,
                    [body |-> NotificationBody(b),
                     uid |-> sent["notifications_queue"] + 1, src |-> r])
               /\ sent' = [sent EXCEPT !["notifications_queue"] = @ + 1]
               /\ req' = [req EXCEPT ![r] = [base EXCEPT !.queue = "ok",
                                                          !.resp = NotifySuccessResponse]]
          ELSE /\ req' = [req EXCEPT ![r] = [base EXCEPT !.queue = "failed",
                                                          !.raised = TRUE,
                                                          !.resp = NotifyErrorResponse]]
               /\ UNCHANGED <<notificationsQueue, sent>>
  /\ UNCHANGED <<store, nextId, rabbitChannel, nodeOffset>>
  /\ UNCHANGED <<itemEvents, itemsQueue>>
  /\ UNCHANGED goVars
  /\ UNCHANGED lifeVars

ApiNext == NodeNext \/ (\E r \in Requests : Notify(r))

\* The Node API serving item mutations and notification requests.
SpecApi == Init /\ [][ApiNext]_vars

(***************************************************************************)
(* Go service: POST /api/events                                            *)
(***************************************************************************)
\* The JSON object a client posts.
EventRequestBody == [note |-> "ping"]

CustomEvent_NoTimestamp(requestBody) ==
  [event |-> "custom_event", data |-> requestBody, source |-> "go-service"]

\* The event map sendEvent marshals once and sends to both outputs.
CustomEvent(requestBody) ==
  [event |-> "custom_event", data |-> requestBody, timestamp |-> NowRFC3339,
   source |-> "go-service"]

BadRequestResponse == [status |-> 400, body |-> [error |-> "Invalid request body"]]

EventSentResponse_OnlyIfSent(okLog, okQueue) ==
  IF okLog /\ okQueue
  THEN [status |-> 200, body |-> [success |-> TRUE, message |-> "Event sent successfully"]]
  ELSE [status |-> 500, body |-> [success |-> FALSE, message |-> "Event not sent"]]

\* The response after the two sends, whose results sendEvent discards.
EventSentResponse(okLog, okQueue) ==
  [status |-> 200, body |-> [success |-> TRUE, message |-> "Event sent successfully"]]

\* sendEvent: one POST /api/events from its arrival to its response. go.api
\* keeps, per request served, whether its body was valid and the response.
SendEvent ==
  /\ GoRunning
  /\ go.http = "accepting"
  /\ Len(go.api) < MaxReq
  /\ \E valid, okLog, okQueue \in BOOLEAN :
       LET n     == Len(go.api) + 1
           bytes == JSONStringify(CustomEvent(EventRequestBody))
       IN IF ~valid
          THEN /\ okLog /\ okQueue
               /\ go' = [go EXCEPT !.api = Append(@, [valid |-> FALSE,
                                                       resp |-> BadRequestResponse])]
               /\ UNCHANGED <<goEvents, goEventsQueue, emits>>
          ELSE /\ okLog => HandleOpen("go-events")
               /\ okQueue => HandleOpen("go_events_queue")
               /\ emits' = emits \o
                    <<[from |-> "http", uid |-> n, to |-> "go-events", ok |-> okLog,
                       handle |-> OutputHandle("go-events")],
                      [from |-> "http", uid |-> n, to |-> "go_events_queue",
                       ok |-> okQueue, handle |-> OutputHandle("go_events_queue")]>>
               /\ goEvents' = IF okLog
                              THEN Publish(goEvents, [body |-> bytes, from |-> "http",
                                                      uid |-> n])
                              ELSE goEvents
               /\ goEventsQueue' = IF okQueue
                                   THEN Publish(goEventsQueue, [body |-> bytes,
                                                                from |-> "http", uid |-> n])
                                   ELSE goEventsQueue
               /\ go' = [go EXCEPT !.api = Append(@, [valid |-> TRUE,
                                            resp |-> EventSentResponse(okLog, okQueue)])]
  /\ UNCHANGED <<goRest, chanVars>>
  /\ UNCHANGED <<goOffset, loop, received, handled, skipped>>

EventsNext == SendEvent \/ GoSignal \/ GoShutdownStep

\* The Go service's event endpoint from the serving state until the process
\* has shut down.
SpecEvents == Init /\ [][EventsNext]_vars

(***************************************************************************)
(* Go service: shutdown of a serving process                               *)
(***************************************************************************)
\* Messages that reach the input channels around the shutdown signal.
MaxPending == 1

\* Requests the client sends in the runs that are followed until they settle.
MaxCalls == 1

ArrivePending(c) ==
  /\ TotalSent < MaxPending
  /\ Arrive(c)

ShutdownNext ==
  \/ GoSignal \/ GoShutdownStep \/ KafkaReadError
  \/ \E c \in InputChannels : LoopEnds(c) \/ ArrivePending(c)
  \/ GoNext

\* The serving Go service with its loops busy, up to the end of the
\* process; gracefulShutdown runs on the main goroutine and
\* each of its statements returns.
SpecShutdown == Init /\ [][ShutdownNext]_vars /\ WF_vars(GoShutdownStep)

(***************************************************************************)
(* Both services on the fixed topology                                     *)
(***************************************************************************)
TopologyNext ==
  \/ \E r \in Requests :
       \/ NextInTurn(r) /\ (StoreStep(r) \/ Notify(r))
       \/ KafkaSend(r) \/ QueueSend(r) \/ Respond(r)
  \/ GoNext

\* The Node API serving a client's requests one after the other and the Go
\* service relaying whatever the Node API put on the three input channels.
SpecTopology == Init /\ [][TopologyNext]_vars

(***************************************************************************)
(* Node API: crash and restart                                             *)
(***************************************************************************)
\* A request between the commit of its mutation and its response.
InWindow(q) == q.pc \in {"committed", "logsent", "returned"}

Recovered_Replay(q) == [q EXCEPT !.pc = "committed", !.log = "none", !.queue = "none"]

\* What a restarted process knows of a request that was in its window when
\* the process died: initializeServices only reconnects, the request's
\* pending publish existed in memory only and is gone.
Recovered(q) == [q EXCEPT !.pc = "crashed"]

\* The emissions that had not been made when request r's process died.
Unsent(r) ==
  {<<r, a>> : a \in {x \in {"log", "queue"} : req[r][x] = "none"}}

\* The Node process dies while at least one request is in its window; a new
\* process starts from its first statement.
NodeCrash ==
  /\ node.init # "off"
  /\ \E r \in Requests : InWindow(req[r])
  /\ req' = [r \in Requests |-> IF InWindow(req[r]) THEN Recovered(req[r]) ELSE req[r]]
  /\ rabbitChannel' = "null"
  /\ node' = [init |-> "off", http |-> FALSE, producer |-> FALSE, consumer |-> FALSE,
              declared |-> {}, mongo |-> "open", stop |-> "none", closes |-> <<>>,
              lost |-> node.lost \cup
                       UNION {Unsent(r) : r \in {q \in Requests : InWindow(req[q])}}]
  /\ UNCHANGED <<store, nextId, nodeOffset, go, up>>
  /\ UNCHANGED chanVars
  /\ UNCHANGED goVars

CrashNext == NodeBootNext \/ NodeCrash

\* The Node API with crashes inside the window between commit and response,
\* each followed by a fresh start.
SpecCrash == Init /\ [][CrashNext]_vars

(***************************************************************************)
(* The whole system with every consumer                                    *)
(***************************************************************************)
\* No request of the Node API is between its store call and its response.
NoneInFlight == \A r \in Requests : req[r].pc \in {"idle", "done"}

\* Nothing is pending: no request in flight, every input message taken by
\* every consumer of its channel, every handler returned.
Quiescent ==
  /\ NoneInFlight
  /\ goOffset = Len(itemEvents)
  /\ nodeOffset = Len(itemEvents)
  /\ itemsQueue = <<>>
  /\ notificationsQueue = <<>>
  /\ \A c \in InputChannels : loop[c].pc = "recv"

\* HTTP requests served so far by the two services together.
Served == Cardinality({r \in Requests : req[r].pc # "idle"}) + Len(go.api)

\* The client's next request goes to the Go service's event endpoint.
ClientSendsEvent ==
  /\ Quiescent
  /\ Served < MaxReq
  /\ SendEvent

\* The client's next request goes to the Node API.
ClientCalls(r) ==
  /\ NextInTurn(r)
  /\ Quiescent
  /\ Served < MaxReq
  /\ StoreStep(r) \/ Notify(r)

\* A step either service takes on its own: an await of a route settles, a
\* consumer takes a message, a handler returns.
ServiceStep ==
  \/ \E r \in Requests : KafkaSend(r) \/ QueueSend(r) \/ Respond(r)
  \/ NodeConsume
  \/ GoNext

WholeNext ==
  \/ \E r \in Requests : ClientCalls(r)
  \/ ClientSendsEvent
  \/ ServiceStep

\* Both services with all four consumers, for a client that sends at most
\* MaxReq requests and sends the next one when the messages of the previous
\* one have been consumed.
SpecWhole == Init /\ [][WholeNext]_vars

\* The same client held to MaxCalls requests.
FirstEvent ==
  /\ Quiescent
  /\ Served < MaxCalls
  /\ SendEvent

FirstCalls(r) ==
  /\ NextInTurn(r)
  /\ Quiescent
  /\ Served < MaxCalls
  /\ StoreStep(r) \/ Notify(r)

SettleNext ==
  \/ \E r \in Requests : FirstCalls(r)
  \/ FirstEvent
  \/ ServiceStep

\* Both services with all four consumers, for a client that sends finitely
\* many requests. The two runtimes keep scheduling: while some await can
\* settle, some loop can take a message or some handler can return, one of
\* them does.
SpecSettle == Init /\ [][SettleNext]_vars /\ WF_vars(ServiceStep)

(***************************************************************************)
(* Properties                                                              *)
(***************************************************************************)
Uids(s) == [i \in 1..Len(s) |-> s[i].uid]

NoDuplicates(s) == \A i, j \in 1..Len(s) : i # j => s[i] # s[j]

IsJSONEntry(e) == e.body.json

NotJSONEntry(e) == ~e.body.json

QueueOf(c) == IF c = "items_queue" THEN itemsQueue ELSE notificationsQueue

OutputChannel(name) == IF name = "go-events" THEN goEvents ELSE goEventsQueue

\* The topology's output channel of each input channel.
FixedOutput(c) == IF c = "item-events" THEN "go-events" ELSE "go_events_queue"

OtherOutput(c) == IF c = "item-events" THEN "go_events_queue" ELSE "go-events"

\* C1: whenever the emission to items_queue failed for a request, the
\* DomainEvent of that request is on item-events, and the response, once
\* sent, is the route's success response.
C1_QueueFailureIsolated ==
  \A r \in Requests :
    req[r].queue = "failed" =>
      /\ \E i \in 1..Len(itemEvents) :
           /\ itemEvents[i].src = r
           /\ itemEvents[i].body.json
           /\ itemEvents[i].body.obj.event = EventOf(req[r].method)
      /\ req[r].pc = "done" =>
           /\ req[r].resp.status = (IF req[r].method = "POST" THEN 201 ELSE 200)
           /\ req[r].resp.body.success

C1_Witness == \E r \in Requests : req[r].queue = "failed" /\ req[r].pc = "done"

\* C2: whenever the emission to item-events failed for a request and
\* publishItemEvent has returned with the queue channel open, an emission of
\* the QueueAction to items_queue was made.
C2_LogFailureStillQueues ==
  \A r \in Requests :
    (req[r].log = "failed" /\ req[r].pc \in {"returned", "done"} /\ rabbitChannel = "open")
      => req[r].queue \in {"ok", "failed"}

\* C3: the response of a finished mutating request is determined by the
\* method and the record-store outcome alone (two finished requests with the
\* same method, target and store outcome carry the same response whatever
\* the brokers did), and publishItemEvent never raises to the route.
C3_ResponseFromStoreOnly ==
  /\ \A r \in Requests : ~req[r].raised
  /\ \A r \in Requests :
       req[r].pc = "done" =>
         /\ req[r].resp.status =
              (CASE req[r].outcome = "ok" -> (IF req[r].method = "POST" THEN 201 ELSE 200)
                 [] req[r].outcome = "notfound" -> 404
                 [] OTHER -> (IF req[r].method = "DELETE" THEN 500 ELSE 400))
         /\ req[r].resp.body.success = (req[r].outcome = "ok")
  /\ \A r, q \in Requests :
       ( /\ req[r].pc = "done" /\ req[q].pc = "done"
         /\ req[r].method = req[q].method /\ req[r].target = req[q].target
         /\ req[r].outcome = req[q].outcome /\ req[r].item = req[q].item )
       => req[r].resp = req[q].resp

C3_Witness ==
  \E r, q \in Requests :
    /\ req[r].pc = "done" /\ req[q].pc = "done"
    /\ req[r].method = "PUT" /\ req[q].method = "PUT"
    /\ req[r].target = req[q].target
    /\ req[r].outcome = "ok" /\ req[q].outcome = "ok"
    /\ req[r].log = "failed"
    /\ req[q].log = "ok" /\ req[q].queue = "ok"

\* C4: a request whose mutation did not commit (validation or store error,
\* or no item with the id) is answered 400, 404 or 500 and nothing is
\* emitted for it to item-events or items_queue.
C4_NoEventWithoutCommit ==
  \A r \in Requests :
    req[r].outcome \in {"invalid", "dberror", "notfound"} =>
      /\ req[r].pc = "done"
      /\ req[r].resp.status \in {400, 404, 500}
      /\ req[r].log = "none" /\ req[r].queue = "none"
      /\ \A i \in 1..Len(itemEvents) : itemEvents[i].src # r
      /\ \A i \in 1..Len(itemsQueue) : itemsQueue[i].src # r

C4_Witness ==
  /\ \E r \in Requests : req[r].outcome = "notfound" /\ req[r].method = "DELETE"
  /\ \E r \in Requests : req[r].outcome = "invalid" /\ req[r].method = "POST"

\* C5: every QueueAction the publisher placed on items_queue has exactly one
\* of item / itemId: a delete yields action "deleted" with itemId the deleted
\* id and no item; a create or update yields "created" / "updated" with item
\* the record and no itemId.
C5_ItemXorItemId ==
  \A i \in 1..Len(itemsQueue) :
    LET e == itemsQueue[i]
        o == e.body.obj
        m == req[e.src].method
    IN e.src \in Requests =>
         /\ e.body.json
         /\ IF m = "DELETE"
            THEN /\ o.action = "deleted"
                 /\ "itemId" \in DOMAIN o /\ "item" \notin DOMAIN o
                 /\ o.itemId = req[e.src].target
            ELSE /\ o.action = (IF m = "POST" THEN "created" ELSE "updated")
                 /\ "item" \in DOMAIN o /\ "itemId" \notin DOMAIN o
                 /\ o.item = ToJSON(Doc(req[e.src].item))

C5_Witness ==
  /\ \E i \in 1..Len(itemsQueue) : itemsQueue[i].body.obj.action = "deleted"
  /\ \E i \in 1..Len(itemsQueue) : itemsQueue[i].body.obj.action = "created"

\* C6: each loop dispatches exactly the received messages that are JSON
\* texts, in order, skips exactly the received messages that are not, and is
\* never stopped by one.
C6_MalformedSkippedLoopContinues ==
  \A c \in InputChannels :
    /\ handled[c] = Uids(SelectSeq(received[c], IsJSONEntry))
    /\ skipped[c] = Uids(SelectSeq(received[c], NotJSONEntry))
    /\ loop[c].pc \in {"recv", "process"}

C6_Witness ==
  \E c \in InputChannels :
    /\ Len(received[c]) = 3
    /\ received[c][1].body.json /\ ~received[c][2].body.json /\ received[c][3].body.json
    /\ Len(handled[c]) = 2 /\ Len(skipped[c]) = 1
    /\ loop[c].pc = "recv"

\* The fields a message of channel c must carry.
RequiredFields(c) ==
  CASE c = "item-events" -> {"event"}
    [] c = "items_queue" -> {"action"}
    [] c = "notifications_queue" -> {"message", "recipient"}

\* C7: a received JSON message that lacks a required field of its channel is
\* not dispatched to the handler and no ack emission is made for it.
C7_MissingFieldsRejected ==
  \A c \in InputChannels : \A i \in 1..Len(received[c]) :
    LET e == received[c][i]
    IN (e.body.json /\ ~(RequiredFields(c) \subseteq DOMAIN e.body.obj)) =>
         /\ e.uid \notin Range(handled[c])
         /\ \A j \in 1..Len(emits) : ~(emits[j].from = c /\ emits[j].uid = e.uid)

AttemptsFor(c, uid) == {j \in 1..Len(emits) : emits[j].from = c /\ emits[j].uid = uid}

AcksFor(c, uid, name) ==
  {j \in 1..Len(OutputChannel(name)) :
     OutputChannel(name)[j].from = c /\ OutputChannel(name)[j].uid = uid}

InFlight(c, uid) == loop[c].pc = "process" /\ loop[c].uid = uid

ReceivedEntry(c, uid) == received[c][CHOOSE i \in 1..Len(received[c]) : received[c][i].uid = uid]

AckCarries(c, ack, src) ==
  CASE c = "item-events" ->
         ack.status = "processed" /\ ack.original_event = Field(src, "event", "")
    [] c = "items_queue" ->
         ack.status = "processed" /\ ack.original_action = Field(src, "action", "")
    [] c = "notifications_queue" ->
         ack.status = "sent" /\ ack.recipient = Field(src, "recipient", "")

\* C8 as claimed: every dispatched message whose handler has returned has
\* exactly one derived ack on the output channel of its input channel.
C8_ExactlyOneAck ==
  \A c \in InputChannels : \A k \in 1..Len(handled[c]) :
    ~InFlight(c, handled[c][k]) =>
      Cardinality(AcksFor(c, handled[c][k], FixedOutput(c))) = 1

\* C8 as amended: every dispatched message whose handler has returned had
\* exactly one ack emission attempted, on the fixed output channel of its
\* input channel; the ack is on that channel exactly once if the emission
\* succeeded and not at all if it failed, it is on no other channel, and it
\* carries status "processed" with the original event kind / action, or
\* status "sent" with the recipient.
C8_OneAckAttempt ==
  \A c \in InputChannels : \A k \in 1..Len(handled[c]) :
    LET uid == handled[c][k]
    IN /\ Cardinality(AttemptsFor(c, uid)) = (IF InFlight(c, uid) THEN 0 ELSE 1)
       /\ \A j \in AttemptsFor(c, uid) : emits[j].to = FixedOutput(c)
       /\ Cardinality(AcksFor(c, uid, FixedOutput(c))) =
            (IF \E j \in AttemptsFor(c, uid) : emits[j].ok THEN 1 ELSE 0)
       /\ AcksFor(c, uid, OtherOutput(c)) = {}
       /\ \A j \in AcksFor(c, uid, FixedOutput(c)) :
            /\ OutputChannel(FixedOutput(c))[j].body.json
            /\ AckCarries(c, OutputChannel(FixedOutput(c))[j].body.obj,
                          ReceivedEntry(c, uid).body.obj)

C8_Witness ==
  /\ \E j \in 1..Len(goEvents) : goEvents[j].body.obj.original_event = "item_deleted"
  /\ \E j \in 1..Len(goEventsQueue) : goEventsQueue[j].from = "notifications_queue"
  /\ \E j \in 1..Len(emits) : ~emits[j].ok

\* C9: a message of items_queue or notifications_queue is delivered to its
\* loop at most once and dispatched at most once, and a delivered message is
\* never in the queue again.
C9_AtMostOnce ==
  \A c \in {"items_queue", "notifications_queue"} :
    /\ NoDuplicates(Uids(received[c]))
    /\ NoDuplicates(handled[c])
    /\ \A i \in 1..Len(QueueOf(c)) : QueueOf(c)[i].uid \notin Range(Uids(received[c]))
    /\ Len(received[c]) + Len(QueueOf(c)) = sent[c]

C9_Witness ==
  \E c \in {"items_queue", "notifications_queue"} :
    /\ skipped[c] # <<>>
    /\ \E j \in 1..Len(emits) : emits[j].from = c /\ ~emits[j].ok
    /\ QueueOf(c) = <<>>
    /\ loop[c].pc = "recv"

\* C10: the handler of the Go service is called at most once for each event
\* on item-events, in offset order, whatever the offset of node-api-group
\* is, and every event accepted onto item-events is eventually dispatched.
C10_ExactlyOncePerGroup ==
  /\ [](/\ NoDuplicates(handled["item-events"])
        /\ handled["item-events"] = [i \in 1..goOffset |-> i]
        /\ goOffset <= Len(itemEvents))
  /\ \A i \in 1..MaxReq :
       (Len(itemEvents) >= i) ~> (i \in Range(handled["item-events"]))

C10_Witness ==
  /\ handled["item-events"] = <<1, 2>>
  /\ loop["item-events"].pc = "recv"
  /\ nodeOffset = 1

(***************************************************************************)
(* Startup and shutdown                                                    *)
(***************************************************************************)
\* Everything the Node API's startup is to have finished: producer and
\* consumer connected, consumer loop running, queue channel open and both
\* fixed queues declared.
NodeStarted ==
  /\ node.init = "done"
  /\ node.producer
  /\ node.consumer
  /\ rabbitChannel = "open"
  /\ node.declared = {"items_queue", "notifications_queue"}

\* Everything the Go service's startup is to have finished.
GoStarted ==
  /\ go.mongo = "open"
  /\ go.reader = "open"
  /\ go.writer = "open"
  /\ go.channel = "open"
  /\ go.conn = "open"
  /\ \A c \in InputChannels : loop[c].pc # "off"

\* C11: the HTTP surface of the Node API accepts no request until the
\* adapters are connected, the fixed queues are declared and the consumer
\* loop has been started.
C11_StartupSequenced ==
  \A r \in Requests : req[r].pc # "idle" => NodeStarted

Stopped(c) == loop[c].pc \in {"off", "stopped"}

\* C12: after the signal the Go service closes the queue channel and
\* connection before the log reader and writer, and closes no adapter while
\* a loop that uses it has not been stopped.
C12_ShutdownSequenced ==
  /\ go.reader = "closed" \/ go.writer = "closed"
       => go.channel = "closed" /\ go.conn = "closed"
  /\ go.reader = "closed" => Stopped("item-events")
  /\ go.channel = "closed" => Stopped("items_queue") /\ Stopped("notifications_queue")

\* C13: when the record store, the log broker or the queue broker is
\* unreachable at process start, the Go service never reaches a serving
\* state.
C13_ConnectFailureFatal ==
  (\E b \in Services : ~up[b]) => go.http = "down" /\ go.pc # "serving"

ShutdownBegun == go.pc \in Range(ShutdownOrder)

\* C14: once the shutdown signal has arrived, no consumer loop takes another
\* message from its channel.
C14_NoPullAfterStop ==
  [][ShutdownBegun => received' = received]_vars

(***************************************************************************)
(* POST /api/notify                                                        *)
(***************************************************************************)
\* The entries of queue q that request r put there.
EntriesOf(q, r) == {j \in 1..Len(q) : q[j].src = r}

\* C15: a notify request answered while the queue broker is unavailable
\* (no channel, or the send failed) gets 500 and leaves nothing on
\* notifications_queue; one answered with success left exactly one
\* NotificationRequest carrying its message and recipient.
C15_NotifyReflectsBroker ==
  \A r \in Requests :
    req[r].pc = "done" /\ req[r].method = "NOTIFY" =>
      LET mine == EntriesOf(notificationsQueue, r)
      IN /\ req[r].queue \in {"skipped", "failed"} =>
              req[r].resp.status = 500 /\ mine = {}
         /\ req[r].resp.status # 500 =>
              /\ req[r].resp.body.success
              /\ Cardinality(mine) = 1
              /\ \A j \in mine :
                   /\ notificationsQueue[j].body.json
                   /\ Field(notificationsQueue[j].body.obj, "message", "") = req[r].item
                   /\ Field(notificationsQueue[j].body.obj, "recipient", "") = req[r].target

\* One notify request was refused for want of a channel or a failed send,
\* and another one went through.
C15_Witness ==
  \E r1, r2 \in Requests :
    /\ req[r1].method = "NOTIFY" /\ req[r1].pc = "done"
    /\ req[r1].queue = "failed" /\ req[r1].resp.status = 500
    /\ req[r2].method = "NOTIFY" /\ req[r2].pc = "done"
    /\ req[r2].resp.status = 200
    /\ Len(notificationsQueue) = 1

(***************************************************************************)
(* End to end with healthy brokers                                         *)
(***************************************************************************)
\* Request r committed its mutation and neither broker failed it: the queue
\* channel is open and both sends went through.
Healthy(r) ==
  /\ req[r].pc = "done"
  /\ req[r].outcome = "ok"
  /\ rabbitChannel = "open"
  /\ req[r].log # "failed"
  /\ req[r].queue # "failed"

\* C16: with both brokers healthy a successful create is answered 201 and
\* leaves one item_created DomainEvent on item-events and one
\* QueueAction{action: "created", item} on items_queue; a successful delete
\* of an existing id is answered 200 and leaves one
\* QueueAction{action: "deleted", itemId} without item on items_queue.
C16_EndToEndHealthy ==
  \A r \in Requests :
    Healthy(r) =>
      LET logged == EntriesOf(itemEvents, r)
          queued == EntriesOf(itemsQueue, r)
      IN /\ req[r].method = "POST" =>
              /\ req[r].resp.status = 201
              /\ req[r].resp.body.data._id = req[r].item
              /\ Cardinality(logged) = 1
              /\ \A j \in logged :
                   /\ itemEvents[j].body.json
                   /\ itemEvents[j].body.obj.event = "item_created"
                   /\ itemEvents[j].body.obj.data = ToJSON(Doc(req[r].item))
              /\ Cardinality(queued) = 1
              /\ \A j \in queued :
                   /\ itemsQueue[j].body.json
                   /\ itemsQueue[j].body.obj.action = "created"
                   /\ Field(itemsQueue[j].body.obj, "item", Nil) = ToJSON(Doc(req[r].item))
         /\ req[r].method = "DELETE" =>
              /\ req[r].resp.status = 200
              /\ Cardinality(queued) = 1
              /\ \A j \in queued :
                   /\ itemsQueue[j].body.json
                   /\ itemsQueue[j].body.obj.action = "deleted"
                   /\ Field(itemsQueue[j].body.obj, "itemId", "") = req[r].target
                   /\ "item" \notin DOMAIN itemsQueue[j].body.obj

\* A create and a delete of an existing id both finished with healthy
\* brokers.
C16_Witness ==
  \E r1, r2 \in Requests :
    /\ Healthy(r1) /\ req[r1].method = "POST"
    /\ Healthy(r2) /\ req[r2].method = "DELETE"
    /\ Len(itemEvents) = 2 /\ Len(itemsQueue) = 2

(***************************************************************************)
(* Order through the relay                                                 *)
(***************************************************************************)
\* The position at which the loop of channel c received message uid.
DeliveryIndex(c, uid) ==
  CHOOSE i \in 1..Len(received[c]) : received[c][i].uid = uid

\* The acks on an output channel that derive from input channel c appear in
\* the order in which c's loop received their messages.
InDeliveryOrder(out, c) ==
  \A i, j \in 1..Len(out) :
    i < j /\ out[i].from = c /\ out[j].from = c =>
      DeliveryIndex(c, out[i].uid) < DeliveryIndex(c, out[j].uid)

\* C17: for each input channel the derived acks are emitted in the order in
\* which the broker delivered the messages to the loop.
C17_PerChannelOrder ==
  \A c \in InputChannels :
    /\ InDeliveryOrder(goEvents, c)
    /\ InDeliveryOrder(goEventsQueue, c)
    /\ \A i, j \in 1..Len(emits) :
         i < j /\ emits[i].from = c /\ emits[j].from = c =>
           DeliveryIndex(c, emits[i].uid) < DeliveryIndex(c, emits[j].uid)

\* Two messages of one queue were relayed while a message of the other queue
\* was relayed between them.
C17_Witness ==
  /\ Len(goEventsQueue) = 3
  /\ goEventsQueue[1].from = "items_queue"
  /\ goEventsQueue[2].from = "notifications_queue"
  /\ goEventsQueue[3].from = "items_queue"

(***************************************************************************)
(* Ownership of the queue channel handle                                   *)
(***************************************************************************)
QueueTasks == {"items_queue", "notifications_queue"}

\* The channel handle on which the loop of queue c consumes and on which its
\* handler publishes: the package-level variable rabbitChannel for both.
HandleOf(c) == "rabbitChannel"

\* C18: no two tasks that run at the same time operate on the same queue
\* channel handle: when the handlers of both queue loops are about to
\* publish, they hold different handles.
C18_ExclusiveHandle ==
  \A c1, c2 \in QueueTasks :
    c1 # c2 /\ loop[c1].pc = "process" /\ loop[c2].pc = "process" =>
      HandleOf(c1) # HandleOf(c2)

(***************************************************************************)
(* Routing                                                                 *)
(***************************************************************************)
\* The kind of a message, read off the fields of its JSON object.
KindOf(obj) ==
  CASE "event" \in DOMAIN obj -> "DomainEvent"
    [] "action" \in DOMAIN obj -> "QueueAction"
    [] "original_event" \in DOMAIN obj -> "LogAck"
    [] "original_action" \in DOMAIN obj -> "QueueAck"
    [] "notification_id" \in DOMAIN obj -> "QueueAck"
    [] OTHER -> "NotificationRequest"

\* The channel the fixed topology assigns to each kind of message.
ChannelOfKind(kind) ==
  CASE kind = "DomainEvent" -> "item-events"
    [] kind = "QueueAction" -> "items_queue"
    [] kind = "NotificationRequest" -> "notifications_queue"
    [] kind = "LogAck" -> "go-events"
    [] kind = "QueueAck" -> "go_events_queue"

\* Every message in sequence q is of a kind that belongs on channel name.
OnlyKindsOf(q, name) ==
  \A i \in 1..Len(q) : q[i].body.json /\ ChannelOfKind(KindOf(q[i].body.obj)) = name

\* C19: in every reachable state each channel holds, and each loop has
\* received, only the kind of message the fixed topology routes to it, and
\* every handler emission goes to the output channel of its input channel.
C19_FixedTopology ==
  /\ OnlyKindsOf(itemEvents, "item-events")
  /\ OnlyKindsOf(itemsQueue, "items_queue")
  /\ OnlyKindsOf(notificationsQueue, "notifications_queue")
  /\ \A c \in InputChannels : OnlyKindsOf(received[c], c)
  /\ OnlyKindsOf(goEvents, "go-events")
  /\ OnlyKindsOf(goEventsQueue, "go_events_queue")
  /\ \A i \in 1..Len(emits) : emits[i].to = FixedOutput(emits[i].from)

\* A create and a notification have each travelled through both services:
\* all five channels have carried a message.
C19_Witness ==
  /\ itemEvents # <<>>
  /\ \E i \in 1..Len(goEvents) : goEvents[i].from = "item-events"
  /\ \E i \in 1..Len(goEventsQueue) : goEventsQueue[i].from = "items_queue"
  /\ \E i \in 1..Len(goEventsQueue) : goEventsQueue[i].from = "notifications_queue"
  /\ received["notifications_queue"] # <<>>

(***************************************************************************)
(* Partial-failure window                                                  *)
(***************************************************************************)
\* C20: an emission that had not been made when the process crashed inside
\* a request's window (after the commit, before publish completed) is never
\* made afterwards, restart included.
C20_LostInWindow ==
  \A r \in Requests :
    /\ <<r, "log">> \in node.lost => EntriesOf(itemEvents, r) = {}
    /\ <<r, "queue">> \in node.lost => EntriesOf(itemsQueue, r) = {}

\* A process died after a commit and before the log emission, the next
\* process finished starting and served a later request to the end with its
\* event emitted, and the first mutation is in the store.
C20_Witness ==
  \E r1, r2 \in Requests :
    /\ <<r1, "log">> \in node.lost /\ req[r1].pc = "crashed"
    /\ req[r1].method = "POST" /\ req[r1].item \in store
    /\ node.init = "done" /\ node.producer
    /\ req[r2].pc = "done" /\ req[r2].log = "ok"
    /\ EntriesOf(itemEvents, r2) # {}

(***************************************************************************)
(* Round trip of a DomainEvent                                             *)
(***************************************************************************)
\* The event object request r hands to JSON.stringify in publishItemEvent.
DomainEventOf(r) ==
  [event |-> EventOf(req[r].method),
   data |-> EventData(req[r].method, req[r].item),
   timestamp |-> NowISO]

\* The request whose event the item-events loop is handling.
SourceOf(uid) ==
  received["item-events"][DeliveryIndex("item-events", uid)].src

Decoding == loop["item-events"].pc = "process"

\* C21 as stated: what the Go loop decoded is equal to the event the Node
\* publisher encoded, payload included.
C21_RoundTrip ==
  Decoding =>
    LET e == DomainEventOf(SourceOf(loop["item-events"].uid))
    IN loop["item-events"].msg =
         [Event |-> e.event, Data |-> e.data, Timestamp |-> e.timestamp]

\* C21 amended: what the Go loop decoded has the event kind and the timestamp
\* of the encoded event, and as payload the JSON form of its payload (a
\* record's id and dates as their texts, every other field unchanged).
C21_RoundTripJSON ==
  Decoding =>
    LET e == DomainEventOf(SourceOf(loop["item-events"].uid))
    IN loop["item-events"].msg =
         [Event |-> e.event, Data |-> ToJSON(e.data), Timestamp |-> e.timestamp]

\* The loop has decoded the event of a create, whose payload is a record.
C21_Witness ==
  /\ Decoding
  /\ loop["item-events"].msg.Event = "item_created"
  /\ loop["item-events"].msg.Data.name = "Widget"

(***************************************************************************)
(* No feedback                                                             *)
(***************************************************************************)
IsPrefix(s, t) == Len(s) <= Len(t) /\ \A i \in 1..Len(s) : s[i] = t[i]

\* No step takes a message off a derived-ack channel, and a step of the Node
\* consumer places no message anywhere.
NoFeedbackStep ==
  /\ IsPrefix(goEvents, goEvents')
  /\ IsPrefix(goEventsQueue, goEventsQueue')
  /\ nodeOffset' # nodeOffset =>
       UNCHANGED <<itemEvents, itemsQueue, notificationsQueue, goEvents, goEventsQueue>>

\* Each Node request sends at most one message per input channel, each event
\* request makes two emissions, each input message yields at most one ack
\* emission.
EmissionsBounded ==
  /\ TotalSent <= 2 * Served
  /\ Len(emits) <= TotalSent + 2 * Len(go.api)
  /\ Len(goEvents) + Len(goEventsQueue) <= Len(emits)

\* C22: the derived-ack channels are never consumed, the Node consumer emits
\* nothing, the number of messages emitted is bounded by the requests
\* served, and the system eventually stays quiescent.
C22_NoFeedbackLoop ==
  /\ [][NoFeedbackStep]_vars
  /\ []EmissionsBounded
  /\ <>[]Quiescent

\* A change has been relayed through both consumers of item-events and the
\* items_queue loop, both acks have been emitted, and nothing is pending.
C22_Witness ==
  /\ Quiescent
  /\ Served = MaxCalls
  /\ received["item-events"] # <<>>
  /\ received["items_queue"] # <<>>
  /\ nodeOffset >= 1
  /\ Len(goEvents) >= 1
  /\ Len(goEventsQueue) >= 1

(***************************************************************************)
(* Loop state machine                                                      *)
(***************************************************************************)
\* The adapter handle the loop of channel c consumes from.
AdapterOf(c) == IF c = "item-events" THEN go.reader ELSE go.channel

\* The state of the loop of channel c: the Kafka loop's subscription is made
\* when connectKafka builds the reader, a RabbitMQ loop's by its Consume call;
\* a loop of a process that has ended is stopped.
LoopState(c) ==
  CASE ~GoRunning -> "Stopped"
    [] loop[c].pc = "stopped" -> "Stopped"
    [] loop[c].pc = "subscribe" -> "Connecting"
    [] loop[c].pc = "off" ->
         IF c = "item-events" /\ go.reader = "open" THEN "Connecting" ELSE "Stopped"
    [] OTHER -> "Consuming"

LoopEdges ==
  {<<"Stopped", "Connecting">>, <<"Connecting", "Consuming">>,
   <<"Consuming", "Stopped">>, <<"Consuming", "Reconnecting">>}

\* C23: a loop changes state only along Stopped -> Connecting -> Consuming
\* -> (Stopped | Reconnecting), takes a message only while Consuming, and its
\* next read attempt after its adapter was closed takes it out of Consuming.
C23_LoopStateMachine ==
  [][\A c \in InputChannels :
       /\ LoopState(c)' # LoopState(c) => <<LoopState(c), LoopState(c)'>> \in LoopEdges
       /\ received[c]' # received[c] => LoopState(c) = "Consuming"
       /\ (AdapterOf(c) = "closed" /\ loop[c].pc = "recv"
             /\ <<loop[c], go.spun>>' # <<loop[c], go.spun>>)
            => LoopState(c)' # "Consuming"]_vars

(***************************************************************************)
(* At most one transmission per adapter                                    *)
(***************************************************************************)
\* C24: for every mutation at most one DomainEvent of it is on item-events
\* and at most one QueueAction of it has been sent to items_queue, whatever
\* sends failed and whatever crashes and restarts happened.
C24_AtMostOncePerAdapter ==
  \A r \in Requests :
    /\ Cardinality(EntriesOf(itemEvents, r)) <= 1
    /\ Cardinality(EntriesOf(itemsQueue, r)) <= 1
    /\ req[r].outcome # "ok" =>
         EntriesOf(itemEvents, r) = {} /\ EntriesOf(itemsQueue, r) = {}

\* One mutation was transmitted on both adapters, and the process crashed
\* after the log emission of another one and has been started again.
C24_Witness ==
  \E r1, r2 \in Requests :
    /\ req[r1].pc = "done" /\ req[r1].log = "ok" /\ req[r1].queue = "ok"
    /\ Cardinality(EntriesOf(itemEvents, r1)) = 1
    /\ Cardinality(EntriesOf(itemsQueue, r1)) = 1
    /\ req[r2].pc = "crashed" /\ req[r2].log = "ok"
    /\ Cardinality(EntriesOf(itemEvents, r2)) = 1
    /\ node.init = "done"

(***************************************************************************)
(* Wire format                                                             *)
(***************************************************************************)
\* Every message in sequence q is a JSON object with a timestamp field.
AllTimestamped(q) ==
  \A i \in 1..Len(q) : q[i].body.json /\ "timestamp" \in DOMAIN q[i].body.obj

\* C25: every message either service has placed on any of the five channels
\* (those already consumed included) carries a timestamp field.
C25_TimestampEverywhere ==
  /\ AllTimestamped(itemEvents)
  /\ AllTimestamped(itemsQueue)
  /\ AllTimestamped(notificationsQueue)
  /\ \A c \in InputChannels : AllTimestamped(received[c])
  /\ AllTimestamped(goEvents)
  /\ AllTimestamped(goEventsQueue)

\* A domain event, a queue action, their two acks and a custom event on both
\* output channels have all been emitted.
C25_Witness ==
  /\ received["item-events"] # <<>>
  /\ received["items_queue"] # <<>>
  /\ \E i \in 1..Len(goEvents) : goEvents[i].from = "item-events"
  /\ \E i \in 1..Len(goEvents) : goEvents[i].from = "http"
  /\ \E i \in 1..Len(goEventsQueue) : goEventsQueue[i].from = "items_queue"
  /\ \E i \in 1..Len(goEventsQueue) : goEventsQueue[i].from = "http"

(***************************************************************************)
(* Shutdown completes                                                      *)
(***************************************************************************)
AllClosed ==
  /\ go.reader = "closed"
  /\ go.writer = "closed"
  /\ go.channel = "closed"
  /\ go.conn = "closed"
  /\ go.mongo = "closed"

\* C26: after the shutdown signal, whether or not the in-flight requests
\* drained within the grace period, the reader, the writer, the channel, the
\* connection and the record-store client are eventually all closed and the
\* process has exited.
C26_ShutdownCompletes ==
  ShutdownBegun ~> (go.pc = "exited" /\ AllClosed)

\* The process has exited with everything closed although the grace period
\* ran out, while a message it never took is still waiting on a queue.
C26_Witness ==
  /\ go.pc = "exited"
  /\ AllClosed
  /\ go.http = "forced"
  /\ itemsQueue # <<>>

(***************************************************************************)
(* POST /api/events                                                        *)
(***************************************************************************)
\* The emissions event request n attempted on output channel name.
EventAttempts(n, name) ==
  {i \in 1..Len(emits) : emits[i].from = "http" /\ emits[i].uid = n /\ emits[i].to = name}

\* The messages of event request n on output channel out.
EventMessages(out, n) ==
  {i \in 1..Len(out) : out[i].from = "http" /\ out[i].uid = n}

\* C27: an event request with a valid body is answered 200 success whatever
\* became of its emissions, and attempted exactly one emission of the same
\* custom_event payload on go-events and on go_events_queue; one with an
\* invalid body is answered 400 and emitted nothing.
C27_EventEndpoint ==
  \A n \in 1..Len(go.api) :
    IF go.api[n].valid
    THEN /\ go.api[n].resp.status = 200
         /\ go.api[n].resp.body.success
         /\ Cardinality(EventAttempts(n, "go-events")) = 1
         /\ Cardinality(EventAttempts(n, "go_events_queue")) = 1
         /\ \A i \in EventMessages(goEvents, n) :
              /\ goEvents[i].body.obj.event = "custom_event"
              /\ \A j \in EventMessages(goEventsQueue, n) :
                   goEventsQueue[j].body = goEvents[i].body
    ELSE /\ go.api[n].resp.status = 400
         /\ EventAttempts(n, "go-events") = {}
         /\ EventAttempts(n, "go_events_queue") = {}
         /\ EventMessages(goEvents, n) = {}
         /\ EventMessages(goEventsQueue, n) = {}

\* One event request was answered 200 although its emission to go-events
\* failed, and one with an invalid body was answered 400.
C27_Witness ==
  \E n, m \in 1..Len(go.api) :
    /\ go.api[n].valid /\ go.api[n].resp.status = 200
    /\ EventMessages(goEvents, n) = {}
    /\ EventMessages(goEventsQueue, n) # {}
    /\ ~go.api[m].valid /\ go.api[m].resp.status = 400

(***************************************************************************)
(* Node API: sends and queue declaration                                   *)
(***************************************************************************)
\* C28: the Node API sends a message to items_queue or notifications_queue
\* only when its declaration of that queue has completed successfully.
C28_SendAfterDeclare ==
  [][/\ itemsQueue' # itemsQueue /\ Len(itemsQueue') > Len(itemsQueue)
          => "items_queue" \in node.declared
     /\ notificationsQueue' # notificationsQueue
          /\ Len(notificationsQueue') > Len(notificationsQueue)
          => "notifications_queue" \in node.declared]_vars

(***************************************************************************)
(* Node API: queue adapter against log adapter startup                     *)
(***************************************************************************)
\* C29: when initialization has ended because connecting the log producer or
\* consumer failed, and the queue broker is reachable, the queue channel is
\* established.
C29_QueueIndependentOfLog ==
  node.init = AfterKafkaInitFailure /\ up["rabbit"] => rabbitChannel = "open"

(***************************************************************************)
(* Event order against commit order                                        *)
(***************************************************************************)
\* C30: the DomainEvents of two mutations of the same record are on
\* item-events in the order in which the two mutations committed.
C30_EventsInCommitOrder ==
  \A i, j \in 1..Len(itemEvents) :
    LET a == itemEvents[i].src
        b == itemEvents[j].src
    IN i < j /\ a \in Requests /\ b \in Requests /\ req[a].item = req[b].item
         => req[a].seq < req[b].seq

(***************************************************************************)
(* Log emission before queue emission                                      *)
(***************************************************************************)
\* The message on item-events that request r's publish call placed there
\* carries the same mutation as the message m of items_queue.
SameMutation(e, m) ==
  /\ e.src = m.src
  /\ e.body.json /\ m.body.json
  /\ e.body.obj.event = EventOf(req[m.src].method)
  /\ m.body.obj.action = ReplaceItemPrefix(e.body.obj.event)

\* C31: every QueueAction on items_queue has the DomainEvent of the same
\* mutation on item-events, and the request that sent it had its log
\* emission accepted first.
C31_LogBeforeQueue ==
  \A i \in 1..Len(itemsQueue) :
    /\ req[itemsQueue[i].src].log = "ok"
    /\ \E j \in 1..Len(itemEvents) : SameMutation(itemEvents[j], itemsQueue[i])

\* One request has placed its QueueAction after its DomainEvent, and another
\* one, whose log emission was refused, has finished without a QueueAction.
C31_Witness ==
  /\ \E r \in Requests : req[r].log = "ok" /\ req[r].queue = "ok"
  /\ \E q \in Requests :
       /\ req[q].log = "failed" /\ req[q].pc = "done"
       /\ \A i \in 1..Len(itemsQueue) : itemsQueue[i].src # q

(***************************************************************************)
(* Response after publish                                                  *)
(***************************************************************************)
\* The success response of request r has been sent.
Succeeded(r) == req[r].pc = "done" /\ req[r].resp.body.success

\* The emission has been attempted and has settled.
Completed(outcome) == outcome \in {"ok", "failed"}

\* Both emissions of request r have settled or will not be attempted: the
\* queue emission is given up when the log emission was refused or the
\* channel is missing.
PublishFinished(r) ==
  /\ Completed(req[r].log)
  /\ \/ Completed(req[r].queue)
     \/ req[r].queue = "skipped" /\ req[r].log = "ok"
     \/ req[r].queue = "none" /\ req[r].log = "failed"

\* The messages request r has placed on the two channels.
EmittedBy(r) ==
  <<{i \in 1..Len(itemEvents) : itemEvents[i].src = r},
    {i \in 1..Len(itemsQueue) : itemsQueue[i].src = r}>>

\* Once r is answered, no step attempts or places an emission for it.
NoEmissionAfterResponse ==
  \A r \in Requests :
    Succeeded(r) =>
      /\ req'[r] = req[r]
      /\ EmittedBy(r)' = EmittedBy(r)

\* C32: when the success response has been sent both emissions of the
\* mutation have completed or been abandoned, and none is attempted later.
C32_ResponseAfterPublish ==
  /\ [](\A r \in Requests : Succeeded(r) => PublishFinished(r))
  /\ [][NoEmissionAfterResponse]_vars

\* One request was answered after both emissions completed, another one
\* after its log emission was refused and its queue emission given up.
C32_Witness ==
  /\ \E r \in Requests :
       Succeeded(r) /\ req[r].log = "ok" /\ Completed(req[r].queue)
  /\ \E q \in Requests :
       Succeeded(q) /\ req[q].log = "failed" /\ req[q].queue = "none"

(***************************************************************************)
(* Refused queue subscription                                              *)
(***************************************************************************)
QueueChannels == {"items_queue", "notifications_queue"}

\* The goroutine of queue loop c has returned while the channel is open:
\* its Consume call was refused.
Refused(c) == loop[c].pc = "stopped" /\ go.channel = "open"

\* The step in which Consume of loop c is refused.
Refusal(c) == loop[c].pc = "subscribe" /\ loop'[c].pc = "stopped"

\* A returned goroutine is not started again and takes no message.
StaysStopped(c) ==
  loop[c].pc = "stopped" => loop'[c] = loop[c] /\ received'[c] = received[c]

\* What the rest of the process can do next is what it could do with every
\* subscription accepted: main goes on to ListenAndServe, the Kafka loop and
\* the other queue loop subscribe and take their messages.
OthersRun(c) ==
  /\ go.pc = "listen" => ENABLED GoListen
  /\ go.pc = "serving" => go.http = "accepting" /\ ENABLED GoSignal
  /\ (loop["item-events"].pc = "recv" /\ go.reader = "open"
        /\ goOffset < Len(itemEvents)) => ENABLED KafkaRead
  /\ \A d \in QueueChannels \ {c} :
       /\ loop[d].pc = "subscribe" => ENABLED Subscribe(d)
       /\ (loop[d].pc = "recv" /\ d = "items_queue" /\ itemsQueue # <<>>)
            => ENABLED ItemsReceive
       /\ (loop[d].pc = "recv" /\ d = "notifications_queue"
             /\ notificationsQueue # <<>>) => ENABLED NotifyReceive

\* The Go process in main with its three connections made, about to start
\* its consumers; the Node process is not started.
InitConsumers ==
  /\ store = {ObjectId(1)}
  /\ nextId = 1
  /\ rabbitChannel = "null"
  /\ req = [r \in Requests |-> IdleReq]
  /\ itemEvents = <<>>
  /\ itemsQueue = <<>>
  /\ notificationsQueue = <<>>
  /\ goEvents = <<>>
  /\ goEventsQueue = <<>>
  /\ goOffset = 0
  /\ nodeOffset = 0
  /\ loop = [c \in InputChannels |-> OffLoop]
  /\ sent = [c \in InputChannels |-> 0]
  /\ received = [c \in InputChannels |-> <<>>]
  /\ handled = [c \in InputChannels |-> <<>>]
  /\ skipped = [c \in InputChannels |-> <<>>]
  /\ emits = <<>>
  /\ node = [init |-> "off", http |-> FALSE, producer |-> FALSE, consumer |-> FALSE, lost |-> {},
             declared |-> {}, mongo |-> "open", stop |-> "none", closes |-> <<>>]
  /\ go = [pc |-> "startConsumers", mongo |-> "open", reader |-> "open", writer |-> "open",
           channel |-> "open", conn |-> "open", http |-> "down", api |-> <<>>, spun |-> FALSE]
  /\ up = [b \in Services |-> TRUE]

ConsumersNext ==
  \/ GoStartConsumers
  \/ GoListen
  \/ GoSignal
  \/ \E c \in InputChannels : Subscribe(c) \/ ArriveDuringLife(c)
  \/ GoNext

\* The Go service from the start of its consumers to the shutdown signal,
\* its loops fed by arbitrary producers.
SpecConsumers == InitConsumers /\ [][ConsumersNext]_vars

InFlightOnClosed(c) ==
  /\ GoRunning
  /\ loop[c].pc = "process"
  /\ OutputHandle(OutputOf(c)) = "closed"

\* The handler of loop c returns in this step.
Returns(c) == loop[c].pc = "process" /\ loop'[c].pc # "process"

\* A handler that makes its attempt on a closed handle returns with one
\* failed attempt logged, both output channels as they were and the process
\* as it was.
SilentFailure(c) ==
  (InFlightOnClosed(c) /\ Returns(c)) =>
    /\ Len(emits') = Len(emits) + 1
    /\ ~emits'[Len(emits')].ok
    /\ goEvents' = goEvents
    /\ goEventsQueue' = goEventsQueue
    /\ go' = go

\* C34: an ack attempted on a closed writer or channel fails without a
\* message on go-events or go_events_queue and without a fault, and with a
\* handler in that position shutdown still runs to the end.
C34_LateAckHarmless ==
  /\ [][\A c \in InputChannels : SilentFailure(c)]_vars
  /\ [](\A i \in 1..Len(emits) : emits[i].handle = "closed" => ~emits[i].ok)
  /\ \A c \in InputChannels :
       InFlightOnClosed(c) ~> (go.pc = "exited" /\ AllClosed)

\* The process has exited after a handler made its ack attempt on a closed
\* handle, and neither output channel holds a message.
C34_Witness ==
  /\ go.pc = "exited"
  /\ \E i \in 1..Len(emits) : emits[i].handle = "closed" /\ emits[i].from # "http"
  /\ goEvents = <<>>
  /\ goEventsQueue = <<>>

(***************************************************************************)
(* Node API: gracefulShutdown                                              *)
(***************************************************************************)
NodeAlive == node.stop \notin {"exit0", "exit1"}

\* The awaits of gracefulShutdown in program order: producer.disconnect(),
\* consumer.disconnect(), mongoose.connection.close(), rabbitChannel.close().
CloseOrder == <<"producer", "consumer", "mongo", "channel">>

AfterCloseFailure_Continue == "exit0"

\* The catch block of gracefulShutdown: process.exit(1).
AfterCloseFailure == "exit1"

\* The await that follows the one at position i: the channel is closed only
\* if (rabbitChannel); past the last one comes process.exit(0).
StopAfter(i) ==
  IF i = Len(CloseOrder) THEN "exit0"
  ELSE IF CloseOrder[i + 1] = "channel" /\ rabbitChannel = "null"
       THEN (IF i + 1 = Len(CloseOrder) THEN "exit0" ELSE CloseOrder[i + 2])
       ELSE CloseOrder[i + 1]

\* SIGTERM or SIGINT arrives at the serving process: gracefulShutdown runs up
\* to its first await. One signal is followed.
NodeSignal ==
  /\ node.stop = "none"
  /\ node' = [node EXCEPT !.stop = IF CloseOrder[1] = "channel" /\ rabbitChannel = "null"
                                   THEN CloseOrder[2] ELSE CloseOrder[1]]
  /\ UNCHANGED <<store, nextId, rabbitChannel, req, nodeOffset, go, up>>
  /\ UNCHANGED chanVars
  /\ UNCHANGED goVars

\* One await of gracefulShutdown settles: the resource is released and the
\* function goes on to the next await or to process.exit(0), or the call
\* rejects and the catch block ends the process.
NodeShutdownStep ==
  /\ node.stop \in Range(CloseOrder)
  /\ \E ok \in BOOLEAN :
       LET what == node.stop
           i    == CHOOSE k \in 1..Len(CloseOrder) : CloseOrder[k] = what
           log  == Append(node.closes, [what |-> what, ok |-> ok])
       IN IF ok
          THEN /\ node' = [node EXCEPT
                     !.stop = StopAfter(i),
                     !.closes = log,
                     !.producer = IF what = "producer" THEN FALSE ELSE @,
                     !.consumer = IF what = "consumer" THEN FALSE ELSE @,
                     !.mongo = IF what = "mongo" THEN "closed" ELSE @]
               /\ rabbitChannel' = IF what = "channel" THEN "closed" ELSE rabbitChannel
          ELSE /\ node' = [node EXCEPT !.stop = AfterCloseFailure, !.closes = log]
               /\ UNCHANGED rabbitChannel
  /\ UNCHANGED <<store, nextId, req, nodeOffset, go, up>>
  /\ UNCHANGED chanVars
  /\ UNCHANGED goVars

\* The routes go on serving, one request after the other, until the process
\* exits.
ServeWhileAlive(r) ==
  /\ NodeAlive
  /\ (NextInTurn(r) /\ StoreStep(r)) \/ KafkaSend(r) \/ QueueSend(r) \/ Respond(r)

NodeShutdownNext ==
  \/ NodeSignal
  \/ NodeShutdownStep
  \/ \E r \in Requests : ServeWhileAlive(r)

\* The started Node API from a shutdown signal to the end of the process.
SpecNodeShutdown == Init /\ [][NodeShutdownNext]_vars

\* The resources whose close was attempted, in the order of the attempts.
Attempted == [i \in 1..Len(node.closes) |-> node.closes[i].what]

\* Whether gracefulShutdown has left the resource as the running process
\* held it.
StillOpen(what) ==
  CASE what = "producer" -> node.producer
    [] what = "consumer" -> node.consumer
    [] what = "mongo" -> node.mongo = "open"
    [] what = "channel" -> rabbitChannel = "open"

\* C35: the closes are attempted in the order producer, consumer, record
\* store, channel; exit code 0 comes only after every one of them succeeded;
\* a failed close is the last one attempted, what the later ones would have
\* closed is still open, and the exit code is 1.
C35_NodeShutdownOrder ==
  LET order == <<"producer", "consumer", "mongo", "channel">>
      n     == Len(node.closes)
  IN /\ IsPrefix(Attempted, order)
     /\ \A i \in 1..n : node.closes[i].ok => ~StillOpen(order[i])
     /\ \A i \in 1..(n - 1) : node.closes[i].ok
     /\ node.stop = "exit0" =>
          /\ \A i \in 1..n : node.closes[i].ok
          /\ n = 4 \/ (n = 3 /\ rabbitChannel = "null")
     /\ (n > 0 /\ ~node.closes[n].ok) =>
          /\ node.stop = "exit1"
          /\ \A j \in (n + 1)..4 :
               \/ order[j] = "channel" /\ rabbitChannel = "null"
               \/ StillOpen(order[j])
     /\ node.stop = "exit1" => n > 0 /\ ~node.closes[n].ok

\* The producer was disconnected, the consumer's disconnect failed, and the
\* process has exited with code 1 with the record-store connection and the
\* channel still open.
C35_Witness ==
  /\ node.stop = "exit1"
  /\ Len(node.closes) = 2
  /\ ~node.producer
  /\ node.consumer
  /\ node.mongo = "open"
  /\ rabbitChannel = "open"

====
